---- MODULE Spec2Model ----
(***************************************************************************)
(* Write validator of influxdb3_write (write_buffer/validator.rs).         *)
(*                                                                         *)
(* A validator is a type-state machine                                     *)
(*     WithCatalog --parse_lines_and_update_schema--> LinesParsed          *)
(*                 --convert_lines_to_buffer-------> ValidatedLines        *)
(* Several validators share one catalog and the process-wide id counters.  *)
(***************************************************************************)
EXTENDS Integers, Sequences, FiniteSets, TLC

\* ------------------------------------------------------------------ bounds
\* longest payload, in raw lines
MaxLines == 2
\* validator calls (initialize) over the life of the catalog
MaxCalls == 2
\* validators alive at the same time
NumValidators == 2
\* validator calls of the specification that tries every precision
PrecisionCalls == 1
\* validator calls of the specification of the writers racing on one column
RaceCalls == 4

Validators == 1..NumValidators

\* ------------------------------------------------------------ basic values
TIME_COLUMN_NAME == "time"

None == [some |-> FALSE, val |-> <<>>]
Some(x) == [some |-> TRUE, val |-> <<x>>]
Unwrap(o) == o.val[1]

Min(S) == CHOOSE x \in S : \A y \in S : x <= y

\* ------------------------------------------------------- line protocol input
\* A ParsedLine as the tokenizer hands it over: measurement, tag set and field
\* set in source order, optional timestamp.  `display` is its canonical text.
ParsedLine(m, tags, fields, ts, display) ==
    [measurement |-> m, tag_set |-> tags, field_set |-> fields,
     timestamp |-> ts, display |-> display]

TagKV(k, v) == [key |-> k, val |-> v]
\* a field value carries its syntactic type
FieldKV(n, ty, v) == [name |-> n, type |-> ty, val |-> v]

NoParsedLine == ParsedLine("", <<>>, <<>>, None, "")

\* A raw line of the payload: its text, its byte length and what the tokenizer
\* makes of it ("rec": a record, "bad": a syntax error, "skip": blank/comment).
RawLine(kind, text, len, parsed) ==
    [kind |-> kind, text |-> text, len |-> len, parsed |-> parsed]

\* cpu,tag1=foo val1="bar" 1
LpCpu1 ==
    RawLine("rec", "cpu,tag1=foo val1=\"bar\" 1", 25,
        ParsedLine("cpu", <<TagKV("tag1", "foo")>>,
                   <<FieldKV("val1", "String", "bar")>>, Some(1),
                   "cpu,tag1=foo val1=\"bar\" 1"))
\* cpu,tag1=foo val1=5i -1         (val1 as Integer)
LpCpuInt ==
    RawLine("rec", "cpu,tag1=foo val1=5i -1", 23,
        ParsedLine("cpu", <<TagKV("tag1", "foo")>>,
                   <<FieldKV("val1", "Integer", "5")>>, Some(-1),
                   "cpu,tag1=foo val1=5i -1"))
\* cpu,tag1=foo val1="bar",val2=false 2
LpCpuAdd ==
    RawLine("rec", "cpu,tag1=foo val1=\"bar\",val2=false 2", 36,
        ParsedLine("cpu", <<TagKV("tag1", "foo")>>,
                   <<FieldKV("val1", "String", "bar"),
                     FieldKV("val2", "Boolean", "false")>>, Some(2),
                   "cpu,tag1=foo val1=\"bar\",val2=false 2"))
\* cpu val2=true,val2=true        (one field name twice)
LpCpuDup ==
    RawLine("rec", "cpu val2=true,val2=true", 23,
        ParsedLine("cpu", <<>>,
                   <<FieldKV("val2", "Boolean", "true"),
                     FieldKV("val2", "Boolean", "true")>>, None,
                   "cpu val2=true,val2=true"))
\* cpu,time=x val1="bar" 1        (tag key named time)
LpCpuTagTime ==
    RawLine("rec", "cpu,time=x val1=\"bar\" 1", 23,
        ParsedLine("cpu", <<TagKV("time", "x")>>,
                   <<FieldKV("val1", "String", "bar")>>, Some(1),
                   "cpu,time=x val1=\"bar\" 1"))
\*   mem  val1=7i                 (no timestamp; raw text with extra blanks)
LpMem ==
    RawLine("rec", "  mem  val1=7i", 14,
        ParsedLine("mem", <<>>, <<FieldKV("val1", "Integer", "7")>>, None,
                   "mem val1=7i"))
\* cpu val1                        (no field value: the tokenizer rejects it)
LpBad == RawLine("bad", "cpu val1", 8, NoParsedLine)
\* # comment                       (the tokenizer skips it)
LpComment == RawLine("skip", "# c", 3, NoParsedLine)

RawLines ==
    {LpCpu1, LpCpuInt, LpCpuAdd, LpCpuDup, LpCpuTagTime, LpMem, LpBad, LpComment}

\* All payloads of at most MaxLines raw lines
Payloads == UNION {[1..n -> RawLines] : n \in 0..MaxLines}

\* ------------------------------------------------------------ schema values
\* ColumnTracker entry / ColumnDefinition / FieldDefinition: (id, name, type).
\* Types: "Tag", "Timestamp", or the field type "Integer", "UInteger",
\* "Float", "String", "Boolean".
Column(id, name, ty) == [id |-> id, name |-> name, data_type |-> ty]

TableDef(table_id, table_name, columns, key) ==
    [table_id |-> table_id, table_name |-> table_name,
     columns |-> columns, series_key |-> key]

NoTable == TableDef(-1, "", <<>>, <<>>)

\* The namespace schema: the tables of the one database "test"
DbSchema(tables) == [id |-> 0, name |-> "test", tables |-> tables]

Range(s) == {s[i] : i \in DOMAIN s}
ColumnNames(table_def) == {c.name : c \in Range(table_def.columns)}
ColumnIds(table_def) == {c.id : c \in Range(table_def.columns)}
NamesDistinct(columns) ==
    \A i, j \in DOMAIN columns : columns[i].name = columns[j].name => i = j

\* DatabaseSchema::table_definition(name)
table_definition(db_schema, table_name) ==
    IF \E t \in db_schema.tables : t.table_name = table_name
    THEN Some(CHOOSE t \in db_schema.tables : t.table_name = table_name)
    ELSE None

\* TableDefinition::column_id_and_definition(name)
column_id_and_definition(table_def, name) ==
    IF name \in ColumnNames(table_def)
    THEN Some(table_def.columns[
             Min({i \in DOMAIN table_def.columns : table_def.columns[i].name = name})])
    ELSE None

\* TableDefinition::column_name_to_id(name)
column_name_to_id(table_def, name) ==
    IF name \in ColumnNames(table_def)
    THEN Some(Unwrap(column_id_and_definition(table_def, name)).id)
    ELSE None

\* TableDefinition::add_columns: re-validates uniqueness of the names
add_columns(table_def, columns) ==
    IF NamesDistinct(table_def.columns \o columns)
    THEN [ok |-> TRUE,
          table |-> [table_def EXCEPT !.columns = table_def.columns \o columns]]
    ELSE [ok |-> FALSE, table |-> table_def]

\* TableDefinition::new: the column names of a table are unique
TableDefinition_new(table_id, table_name, columns, key) ==
    IF NamesDistinct(columns)
    THEN [ok |-> TRUE, table |-> TableDef(table_id, table_name, columns, key)]
    ELSE [ok |-> FALSE, table |-> NoTable]

\* DatabaseSchema::insert_table: fails on a name held by another table id,
\* else installs the table and returns the table it replaced, if any
insert_table(db_schema, table_id, table) ==
    LET sameId == {t \in db_schema.tables : t.table_id = table_id}
        clash == {t \in db_schema.tables :
                     t.table_name = table.table_name /\ t.table_id # table_id}
    IN  IF clash # {}
        THEN [ok |-> FALSE, prev |-> None, db_schema |-> db_schema]
        ELSE [ok |-> TRUE,
              prev |-> IF sameId = {} THEN None ELSE Some(CHOOSE t \in sameId : TRUE),
              db_schema |-> [db_schema EXCEPT
                                !.tables = (db_schema.tables \ sameId) \cup {table}]]

\* influx_column_type_from_field_value: the value's syntactic type
influx_column_type_from_field_value(field_val) == field_val.type

\* ----------------------------------------------------------------- rows
FieldDataTag(v) == [kind |-> "Tag", val |-> v, ts |-> 0]
FieldDataValue(field_val) == [kind |-> field_val.type, val |-> field_val.val, ts |-> 0]
FieldDataTimestamp(ns) == [kind |-> "Timestamp", val |-> "", ts |-> ns]
\* Field::new
Field(col_id, data) == [id |-> col_id, data |-> data]

Row(time, fields) == [time |-> time, fields |-> fields]

QualifiedLine(table_id, row, index_count, field_count) ==
    [table_id |-> table_id, row |-> row,
     index_count |-> index_count, field_count |-> field_count]

NoQualifiedLine == QualifiedLine(-1, Row(0, <<>>), 0, 0)

\* ------------------------------------------------------------- catalog ops
CreateTable(table_id, table_name, field_definitions, key) ==
    [op |-> "CreateTable", database_id |-> 0, database_name |-> "test",
     table_id |-> table_id, table_name |-> table_name,
     field_definitions |-> field_definitions, key |-> key]

AddFields(table_id, table_name, field_definitions) ==
    [op |-> "AddFields", database_id |-> 0, database_name |-> "test",
     table_id |-> table_id, table_name |-> table_name,
     field_definitions |-> field_definitions, key |-> <<>>]

\* ---------------------------------------------------------- error values
\* WriteLineError.  error_message is kept structured: its kind, and for a
\* type mismatch the field, the line number printed and the two types.
Message(kind, field, line, expected, got) ==
    [kind |-> kind, field |-> field, line |-> line,
     expected |-> expected, got |-> got]

WriteLineError(original_line, line_number, error_message) ==
    [original_line |-> original_line, line_number |-> line_number,
     error_message |-> error_message]

NoError == WriteLineError("", 0, Message("", "", 0, "", ""))

\* ------------------------------------------------------- timestamp precision
Precisions == {"Auto", "Second", "Millisecond", "Microsecond", "Nanosecond"}

\* crate::guess_precision: picks by the magnitude of the value; every
\* timestamp of RawLines is a few units, which it reads as seconds
guess_precision(ts) == "Second"

Multiplier(precision) ==
    CASE precision = "Second" -> 1000000000
      [] precision = "Millisecond" -> 1000000
      [] precision = "Microsecond" -> 1000
      [] precision = "Nanosecond" -> 1

\* Mutant: the timestamp is stored as written, whatever the precision
apply_precision_to_timestamp_Unscaled(precision, ts) == ts

apply_precision_to_timestamp(precision, ts) ==
    LET multiplier ==
            IF precision = "Auto"
            THEN Multiplier(guess_precision(ts))
            ELSE Multiplier(precision)
    IN  ts * multiplier

\* ------------------------------------------------------------ line qualifier
\* The elements s[j] with j in keep, in order
SubSeqWhere(s, keep) ==
    LET idx == DOMAIN s \cap keep
        nth(k) == CHOOSE j \in idx : Cardinality({i \in idx : i < j}) = k - 1
    IN  [k \in 1..Cardinality(idx) |-> s[nth(k)]]

\* What validate_and_qualify_line leaves behind: its return value (status
\* "Ok" with the qualified line and the optional op, "Err" with the error,
\* "Panic" for an unwrap on an Err), the shadow schema and the id counters.
QResult(status, err, qualified, op, db_schema, ids) ==
    [status |-> status, err |-> err, qualified |-> qualified,
     catalog_op |-> op, db_schema |-> db_schema, ids |-> ids]

\* line.timestamp.map(apply_precision_to_timestamp).unwrap_or(ingest_time)
TimestampNs(line, ingest_time, precision) ==
    IF line.timestamp.some
    THEN apply_precision_to_timestamp(precision, Unwrap(line.timestamp))
    ELSE ingest_time

\* Mutant: the AddFields op lists the columns the table already had as well
StageNewColumns_AllColumns(db_schema, table_def, columns, line_number, line) ==
    LET added == add_columns(table_def, columns)
        ins == insert_table(db_schema, table_def.table_id, added.table)
        err == WriteLineError(line.display, line_number + 1,
                              Message("Schema", "", 0, "", ""))
    IN  IF ~added.ok
        THEN [ok |-> FALSE, err |-> err, db_schema |-> db_schema, op |-> None]
        ELSE IF ~ins.ok
        THEN [ok |-> FALSE, err |-> err, db_schema |-> db_schema, op |-> None]
        ELSE [ok |-> TRUE, err |-> NoError, db_schema |-> ins.db_schema,
              op |-> Some(AddFields(table_def.table_id, table_def.table_name,
                                    table_def.columns \o columns))]

\* Mutant: a failing add_columns leaves the added columns in the shadow schema
StageNewColumns_KeptOnError(db_schema, table_def, columns, line_number, line) ==
    LET added == add_columns(table_def, columns)
        kept == [table_def EXCEPT !.columns = table_def.columns \o columns]
        ins == insert_table(db_schema, table_def.table_id,
                            IF added.ok THEN added.table ELSE kept)
        err == WriteLineError(line.display, line_number + 1,
                              Message("Schema", "", 0, "", ""))
    IN  IF ~added.ok
        THEN [ok |-> FALSE, err |-> err, db_schema |-> ins.db_schema, op |-> None]
        ELSE IF ~ins.ok
        THEN [ok |-> FALSE, err |-> err, db_schema |-> db_schema, op |-> None]
        ELSE [ok |-> TRUE, err |-> NoError, db_schema |-> ins.db_schema,
              op |-> Some(AddFields(table_def.table_id, table_def.table_name,
                                    columns))]

\* Mutant: the new table definition is not installed in the shadow schema
StageNewColumns_NotInstalled(db_schema, table_def, columns, line_number, line) ==
    [ok |-> TRUE, err |-> NoError, db_schema |-> db_schema,
     op |-> Some(AddFields(table_def.table_id, table_def.table_name, columns))]

\* The `if !columns.is_empty()` block of the existing-table path: clone the
\* table, add the columns, install it in the shadow, build the AddFields op
StageNewColumns(db_schema, table_def, columns, line_number, line) ==
    LET added == add_columns(table_def, columns)
        ins == insert_table(db_schema, table_def.table_id, added.table)
        err == WriteLineError(line.display, line_number + 1,
                              Message("Schema", "", 0, "", ""))
    IN  IF ~added.ok
        THEN [ok |-> FALSE, err |-> err, db_schema |-> db_schema, op |-> None]
        ELSE IF ~ins.ok
        THEN [ok |-> FALSE, err |-> err, db_schema |-> db_schema, op |-> None]
        ELSE [ok |-> TRUE, err |-> NoError, db_schema |-> ins.db_schema,
              op |-> Some(AddFields(table_def.table_id, table_def.table_name,
                                    columns))]

\* Mutant: the type of an existing column is not compared
FieldTypeMismatch_Unchecked(table_def, field_val) == FALSE

\* `if field_col_type != existing_col_type` for a field whose column exists
FieldTypeMismatch(table_def, field_val) ==
    LET found == column_id_and_definition(table_def, field_val.name)
    IN  /\ found.some
        /\ influx_column_type_from_field_value(field_val) # Unwrap(found).data_type

\* Mutant: the time column is minted without looking it up
ResolveTimeColumn_AlwaysMint(table_def, fresh_id) ==
    [id |-> fresh_id, minted |-> TRUE]

\* table_def.column_name_to_id(TIME_COLUMN_NAME).unwrap_or_else(mint):
\* the id of the time column, and whether it was minted
ResolveTimeColumn(table_def, fresh_id) ==
    IF column_name_to_id(table_def, TIME_COLUMN_NAME).some
    THEN [id |-> Unwrap(column_name_to_id(table_def, TIME_COLUMN_NAME)),
          minted |-> FALSE]
    ELSE [id |-> fresh_id, minted |-> TRUE]

\* The locals the loops of validate_and_qualify_line update: the fields of the
\* row, the ColumnTracker, the two counts, and the id counters as the calls to
\* ColumnId::new() advance them.  failed/err hold the early return.
QualifyState(ids) ==
    [fields |-> <<>>, columns |-> <<>>, index_count |-> 0, field_count |-> 0,
     ids |-> ids, failed |-> FALSE, err |-> NoError]

\* Body of `for (tag_key, tag_val) in tag_set`: the id of the column of that
\* name, whatever its type, else a new Tag column
ExistingTag(q, table_def, tag) ==
    IF column_name_to_id(table_def, tag.key).some
    THEN [q EXCEPT
             !.fields = Append(@, Field(Unwrap(column_name_to_id(table_def, tag.key)),
                                        FieldDataTag(tag.val))),
             !.index_count = @ + 1]
    ELSE [q EXCEPT
             !.fields = Append(@, Field(q.ids.column, FieldDataTag(tag.val))),
             !.columns = Append(@, Column(q.ids.column, tag.key, "Tag")),
             !.ids.column = @ + 1,
             !.index_count = @ + 1]

RECURSIVE ExistingTags(_, _, _, _)
ExistingTags(q, table_def, tag_set, j) ==
    IF j > Len(tag_set) THEN q
    ELSE ExistingTags(ExistingTag(q, table_def, tag_set[j]), table_def, tag_set, j + 1)

\* Body of `for (field_name, field_val) in line.field_set.iter()`: a type
\* mismatch returns the error, an existing column gives its id, else a new
\* column of the value's type.  The message prints line_number, the error
\* carries line_number + 1.
ExistingField(q, table_def, field_val, line_number, line) ==
    IF FieldTypeMismatch(table_def, field_val)
    THEN [q EXCEPT
             !.failed = TRUE,
             !.err = WriteLineError(line.display, line_number + 1,
                         Message("TypeMismatch", field_val.name, line_number,
                             Unwrap(column_id_and_definition(table_def,
                                                             field_val.name)).data_type,
                             influx_column_type_from_field_value(field_val)))]
    ELSE IF column_id_and_definition(table_def, field_val.name).some
    THEN [q EXCEPT
             !.fields = Append(@, Field(Unwrap(column_id_and_definition(
                                                   table_def, field_val.name)).id,
                                        FieldDataValue(field_val))),
             !.field_count = @ + 1]
    ELSE [q EXCEPT
             !.columns = Append(@, Column(q.ids.column, field_val.name,
                                          influx_column_type_from_field_value(field_val))),
             !.fields = Append(@, Field(q.ids.column, FieldDataValue(field_val))),
             !.ids.column = @ + 1,
             !.field_count = @ + 1]

RECURSIVE ExistingFields(_, _, _, _, _, _)
ExistingFields(q, table_def, field_set, line_number, line, j) ==
    IF j > Len(field_set) \/ q.failed THEN q
    ELSE ExistingFields(ExistingField(q, table_def, field_set[j], line_number, line),
                        table_def, field_set, line_number, line, j + 1)

\* The time column and the timestamp field, pushed last
ExistingTime(q, table_def, timestamp_ns) ==
    LET time_col == ResolveTimeColumn(table_def, q.ids.column)
    IN  [q EXCEPT
            !.columns = IF time_col.minted
                        THEN Append(@, Column(time_col.id, TIME_COLUMN_NAME, "Timestamp"))
                        ELSE @,
            !.ids.column = IF time_col.minted THEN @ + 1 ELSE @,
            !.fields = Append(@, Field(time_col.id, FieldDataTimestamp(timestamp_ns)))]

\* The staging of the new columns, if any, and the QualifiedLine
ExistingStaged(db_schema, table_def, line_number, line, timestamp_ns, q) ==
    LET staged == StageNewColumns(db_schema, table_def, q.columns, line_number, line)
        qualified ==
            QualifiedLine(table_def.table_id, Row(timestamp_ns, q.fields),
                          q.index_count, q.field_count)
    IN  IF q.columns = <<>>
        THEN QResult("Ok", NoError, qualified, None, db_schema, q.ids)
        ELSE IF ~staged.ok
        THEN QResult("Err", staged.err, NoQualifiedLine, None, staged.db_schema, q.ids)
        ELSE QResult("Ok", NoError, qualified, staged.op, staged.db_schema, q.ids)

\* What follows the two loops: the early return if the field loop failed, else
\* the time column, the staging and the QualifiedLine
ExistingLine(db_schema, table_def, line_number, line, timestamp_ns, looped) ==
    IF looped.failed
    THEN QResult("Err", looped.err, NoQualifiedLine, None, db_schema, looped.ids)
    ELSE ExistingStaged(db_schema, table_def, line_number, line, timestamp_ns,
                        ExistingTime(looped, table_def, timestamp_ns))

\* validate_and_qualify_line, the table exists in the shadow schema
QualifyExistingTable(db_schema, table_def, line_number, line, ingest_time, precision, ids) ==
    ExistingLine(db_schema, table_def, line_number, line,
                 TimestampNs(line, ingest_time, precision),
                 ExistingFields(ExistingTags(QualifyState(ids), table_def,
                                             line.tag_set, 1),
                                table_def, line.field_set, line_number, line, 1))

\* validate_and_qualify_line, the table is unknown: a new table
QualifyNewTable(db_schema, line_number, line, ingest_time, precision, ids) ==
    LET tags == line.tag_set
        flds == line.field_set
        table_id == ids.table
        TagColId(j) == ids.column + (j - 1)
        FldColId(j) == ids.column + Len(tags) + (j - 1)
        time_col_id == ids.column + Len(tags) + Len(flds)
        key == [j \in DOMAIN tags |-> TagColId(j)]
        timestamp_ns == TimestampNs(line, ingest_time, precision)
        fields ==
            [j \in DOMAIN tags |-> Field(TagColId(j), FieldDataTag(tags[j].val))]
            \o [j \in DOMAIN flds |-> Field(FldColId(j), FieldDataValue(flds[j]))]
            \o <<Field(time_col_id, FieldDataTimestamp(timestamp_ns))>>
        columns ==
            [j \in DOMAIN tags |-> Column(TagColId(j), tags[j].key, "Tag")]
            \o [j \in DOMAIN flds |->
                   Column(FldColId(j), flds[j].name,
                          influx_column_type_from_field_value(flds[j]))]
            \o <<Column(time_col_id, TIME_COLUMN_NAME, "Timestamp")>>
        catalog_op == Some(CreateTable(table_id, line.measurement, columns, key))
        table == TableDefinition_new(table_id, line.measurement, columns, key)
        ins == insert_table(db_schema, table_id, table.table)
        qualified ==
            QualifiedLine(table_id, Row(timestamp_ns, fields), Len(tags), Len(flds))
        idsAll == [table |-> ids.table + 1, column |-> time_col_id + 1]
    IN  IF ~table.ok
        THEN \* TableDefinition::new(..).unwrap()
             QResult("Panic", NoError, NoQualifiedLine, None, db_schema, idsAll)
        ELSE IF ~ins.ok
        THEN QResult("Err",
                 WriteLineError(line.display, line_number + 1,
                                Message("Schema", "", 0, "", "")),
                 NoQualifiedLine, None, db_schema, idsAll)
        ELSE IF ins.prev.some
        THEN QResult("Err",
                 WriteLineError(line.display, line_number + 1,
                                Message("Overwrite", "", 0, "", "")),
                 NoQualifiedLine, None, ins.db_schema, idsAll)
        ELSE QResult("Ok", NoError, qualified, catalog_op, ins.db_schema, idsAll)

validate_and_qualify_line(db_schema, line_number, line, ingest_time, precision, ids) ==
    LET found == table_definition(db_schema, line.measurement)
    IN  IF found.some
        THEN QualifyExistingTable(db_schema, Unwrap(found), line_number, line,
                                  ingest_time, precision, ids)
        ELSE QualifyNewTable(db_schema, line_number, line, ingest_time, precision, ids)

\* ------------------------------------------------------------------ catalog
\* The catalog holds the published schema of the database and the sequence
\* number of the last batch it applied.  `created` is whether db_or_create
\* has created the database yet.
Catalog(created, tables, sequence) ==
    [created |-> created, tables |-> tables, sequence |-> sequence]

\* Catalog::db_or_create: the schema snapshot a validator starts from
db_or_create(cat) ==
    [db_schema |-> DbSchema(cat.tables), catalog |-> [cat EXCEPT !.created = TRUE]]

CatalogBatch(time_ns, ops) ==
    [database_id |-> 0, database_name |-> "test", time_ns |-> time_ns, ops |-> ops]

OrderedCatalogBatch(batch, sequence) ==
    [catalog_batch |-> batch, sequence_number |-> sequence]

\* How the catalog resolves a column or table name that was published by
\* another writer under another id: "fold" keeps the resident id and treats the
\* incoming definition as already present, "reject" refuses the batch.
Policies == {"fold", "reject"}

\* Merge field definitions into the resident table `target`
MergeColumns(tables, target, defs, pol) ==
    LET Resident(j) == defs[j].name \in ColumnNames(target)
        Res(j) == Unwrap(column_id_and_definition(target, defs[j].name))
        conflict == {j \in DOMAIN defs :
                        Resident(j) /\ Res(j).data_type # defs[j].data_type}
        otherId == {j \in DOMAIN defs : Resident(j) /\ Res(j).id # defs[j].id}
        fresh == {j \in DOMAIN defs : ~Resident(j)}
    IN  IF conflict # {} \/ (pol = "reject" /\ otherId # {})
        THEN [ok |-> FALSE, changed |-> FALSE, tables |-> tables]
        ELSE [ok |-> TRUE, changed |-> fresh # {},
              tables |-> (tables \ {target}) \cup
                  {[target EXCEPT !.columns = target.columns \o SubSeqWhere(defs, fresh)]}]

\* One op against the tables of the catalog
ApplyOp(tables, op, pol) ==
    LET byId == {t \in tables : t.table_id = op.table_id}
        byName == {t \in tables : t.table_name = op.table_name}
    IN  IF byName = {} /\ byId = {}
        THEN IF op.op = "CreateTable"
             THEN [ok |-> TRUE, changed |-> TRUE,
                   tables |-> tables \cup
                       {TableDef(op.table_id, op.table_name,
                                 op.field_definitions, op.key)}]
             ELSE [ok |-> FALSE, changed |-> FALSE, tables |-> tables]
        ELSE IF byName = {} \/ (pol = "reject" /\ (byId # byName \/ op.op = "CreateTable"))
        THEN [ok |-> FALSE, changed |-> FALSE, tables |-> tables]
        ELSE MergeColumns(tables, CHOOSE t \in byName : TRUE, op.field_definitions, pol)

\* The outcome so far and the outcome of the next op
Accumulate(acc, r) ==
    [ok |-> r.ok, changed |-> acc.changed \/ r.changed, tables |-> r.tables]

RECURSIVE ApplyOps(_, _, _, _)
ApplyOps(acc, ops, i, pol) ==
    IF i > Len(ops) \/ ~acc.ok THEN acc
    ELSE ApplyOps(Accumulate(acc, ApplyOp(acc.tables, ops[i], pol)), ops, i + 1, pol)

\* What the catalog answers and becomes, given the outcome r of the ops
BatchOutcome(cat, batch, fails, r) ==
    IF fails \/ ~r.ok
    THEN [result |-> "Err", ordered |-> None, catalog |-> cat]
    ELSE IF ~r.changed
    THEN [result |-> "Ok", ordered |-> None, catalog |-> cat]
    ELSE [result |-> "Ok",
          ordered |-> Some(OrderedCatalogBatch(batch, cat.sequence + 1)),
          catalog |-> [cat EXCEPT !.tables = r.tables,
                                  !.sequence = cat.sequence + 1]]

\* Catalog::apply_catalog_batch: atomic; Ok(None) when the batch changes
\* nothing, Ok(Some(ordered batch)) when it does, Err and no change when an op
\* is refused or the catalog fails (`fails`)
apply_catalog_batch(cat, batch, pol, fails) ==
    BatchOutcome(cat, batch, fails,
                 ApplyOps([ok |-> TRUE, changed |-> FALSE, tables |-> cat.tables],
                          batch.ops, 1, pol))

\* ------------------------------------------------ parse_lines_and_update_schema
\* influxdb_line_protocol::parse_lines: one result per record or syntax
\* error; blank lines and comments yield nothing
parse_lines(lp) == SelectSeq(lp, LAMBDA raw : raw.kind # "skip")

\* The local variables of the loop.  cursor is the position of lp_lines;
\* trace records what became of each tokenized line.
LoopState(db_schema, ids) ==
    [status |-> "Running", err |-> NoError, lines |-> <<>>, errors |-> <<>>,
     bytes |-> 0, catalog_updates |-> <<>>, db_schema |-> db_schema,
     ids |-> ids, cursor |-> 1, trace |-> <<>>]

TraceEntry(status, r, idsBefore, tok) ==
    [status |-> status, err |-> r.err, qualified |-> r.qualified,
     catalog_op |-> r.catalog_op, idsBefore |-> idsBefore, idsAfter |-> r.ids,
     line |-> tok, schemaBefore |-> {}, schemaAfter |-> {}]

\* Mutant: accept_partial is ignored, the first error aborts the batch
OnLineError_AlwaysAbort(st, e, accept_partial) ==
    [st EXCEPT !.status = "ParseError", !.err = e]

\* Err(e) arm of the match
OnLineError(st, e, accept_partial) ==
    IF ~accept_partial
    THEN [st EXCEPT !.status = "ParseError", !.err = e]
    ELSE [st EXCEPT !.errors = Append(@, e)]

\* Mutant: the qualified line is put in front of the lines
OnLineOk_LineInFront(st, r, raw_line) ==
    [st EXCEPT !.bytes = @ + raw_line.len,
               !.catalog_updates =
                   IF r.catalog_op.some THEN Append(@, Unwrap(r.catalog_op)) ELSE @,
               !.lines = <<r.qualified>> \o @]

\* Mutant: the op is put in front of the staged ops
OnLineOk_OpInFront(st, r, raw_line) ==
    [st EXCEPT !.bytes = @ + raw_line.len,
               !.catalog_updates =
                   IF r.catalog_op.some THEN <<Unwrap(r.catalog_op)>> \o @ ELSE @,
               !.lines = Append(@, r.qualified)]

\* Ok arm of the match and the pushes that follow it
OnLineOk(st, r, raw_line) ==
    [st EXCEPT !.bytes = @ + raw_line.len,
               !.catalog_updates =
                   IF r.catalog_op.some THEN Append(@, Unwrap(r.catalog_op)) ELSE @,
               !.lines = Append(@, r.qualified)]

\* The `match` on the outcome r of the line, and the pushes after it
MatchLine(st, maybe_line, raw_line, accept_partial, r) ==
    LET entry == [TraceEntry(r.status, r, st.ids, maybe_line) EXCEPT
                     !.schemaBefore = st.db_schema.tables,
                     !.schemaAfter = r.db_schema.tables]
        st1 == [st EXCEPT !.cursor = @ + 1, !.db_schema = r.db_schema,
                          !.ids = r.ids, !.trace = Append(@, entry)]
    IN  CASE r.status = "Ok" -> OnLineOk(st1, r, raw_line)
          [] r.status = "Err" -> OnLineError(st1, r.err, accept_partial)
          [] r.status = "Panic" -> [st1 EXCEPT !.status = "Panic"]

\* One iteration of `for (line_idx, maybe_line) in parse_lines(lp).enumerate()`:
\* raw_line is lp_lines.next(), the line at the cursor
LoopBody(st, line_idx, maybe_line, lp, accept_partial, ingest_time, precision) ==
    MatchLine(st, maybe_line, lp[st.cursor], accept_partial,
              IF maybe_line.kind = "bad"
              THEN QResult("Err",
                       WriteLineError(lp[st.cursor].text, line_idx + 1,
                                      Message("Tokenize", "", 0, "", "")),
                       NoQualifiedLine, None, st.db_schema, st.ids)
              ELSE validate_and_qualify_line(st.db_schema, line_idx, maybe_line.parsed,
                                             ingest_time, precision, st.ids))

RECURSIVE ParseLoop(_, _, _, _, _, _, _)
ParseLoop(st, i, tokens, lp, accept_partial, ingest_time, precision) ==
    IF i > Len(tokens) \/ st.status # "Running" THEN st
    ELSE ParseLoop(LoopBody(st, i - 1, tokens[i], lp, accept_partial,
                            ingest_time, precision),
                   i + 1, tokens, lp, accept_partial, ingest_time, precision)

\* After the loop: build the CatalogBatch and publish it, unless nothing was
\* staged.  `called` is whether apply_catalog_batch was invoked.
PublishUpdates(catalog_updates, time_now_ns, cat, pol, fails) ==
    IF catalog_updates = <<>>
    THEN [called |-> FALSE, batch |-> CatalogBatch(time_now_ns, <<>>),
          result |-> "Ok", catalog_batch |-> None, catalog |-> cat]
    ELSE LET catalog_batch == CatalogBatch(time_now_ns, catalog_updates)
             a == apply_catalog_batch(cat, catalog_batch, pol, fails)
         IN  [called |-> TRUE, batch |-> catalog_batch, result |-> a.result,
              catalog_batch |-> a.ordered, catalog |-> a.catalog]

NotPublished(time_now_ns, cat) ==
    [called |-> FALSE, batch |-> CatalogBatch(time_now_ns, <<>>),
     result |-> "Ok", catalog_batch |-> None, catalog |-> cat]

\* Mutant: the error of apply_catalog_batch is dropped
CallEnd_PublishErrorDropped(st, pub) ==
    CASE st.status = "Panic" -> "Panicked"
      [] st.status = "ParseError" -> "Err"
      [] OTHER -> "Parsed"

\* Mutant: a strict batch goes on to LinesParsed after its first error
CallEnd_ParseErrorDropped(st, pub) ==
    CASE st.status = "Panic" -> "Panicked"
      [] st.status = "Running" /\ pub.result = "Err" -> "Err"
      [] OTHER -> "Parsed"

\* How the call ends: a panic unwinds, `return Err(Error::ParseError(e))`
\* leaves the loop, `?` returns the catalog's error, else Ok(LinesParsed)
CallEnd(st, pub) ==
    CASE st.status = "Panic" -> "Panicked"
      [] st.status = "ParseError" -> "Err"
      [] st.status = "Running" /\ pub.result = "Err" -> "Err"
      [] OTHER -> "Parsed"

\* The error the call returns, if it returns one
NoReturn == [kind |-> "None", err |-> NoError]
CallError(st, pub) ==
    CASE st.status = "ParseError" -> [kind |-> "ParseError", err |-> st.err]
      [] st.status = "Running" /\ pub.result = "Err" ->
             [kind |-> "Catalog", err |-> NoError]
      [] OTHER -> NoReturn

\* The LinesParsed state
LinesParsed(lines, bytes, catalog_batch, errors) ==
    [lines |-> lines, bytes |-> bytes, catalog_batch |-> catalog_batch,
     errors |-> errors]
NoLinesParsed == LinesParsed(<<>>, 0, None, <<>>)

\* ------------------------------------------------------ convert_lines_to_buffer
\* The chunk windows tried (Gen1Duration, in nanoseconds)
Gen1Durations == {3, 1000000000}

\* Gen1Duration::chunk_time_for_timestamp: the start of the window holding t
chunk_time_for_timestamp(gen1_duration, t) == (t \div gen1_duration) * gen1_duration

\* TableChunks::push_row: chunks in insertion order, rows appended
push_row(chunks, chunk_time, row) ==
    IF \E k \in DOMAIN chunks : chunks[k].chunk_time = chunk_time
    THEN [k \in DOMAIN chunks |->
             IF chunks[k].chunk_time = chunk_time
             THEN [chunks[k] EXCEPT !.rows = Append(@, row)]
             ELSE chunks[k]]
    ELSE Append(chunks, [chunk_time |-> chunk_time, rows |-> <<row>>])

\* Mutant: the row is filed under its own time, not under the start of its window
convert_qualified_line_RawTime(line, table_chunk_map, gen1_duration) ==
    IF \E k \in DOMAIN table_chunk_map : table_chunk_map[k].table_id = line.table_id
    THEN [k \in DOMAIN table_chunk_map |->
             IF table_chunk_map[k].table_id = line.table_id
             THEN [table_chunk_map[k] EXCEPT
                      !.chunks = push_row(@, line.row.time, line.row)]
             ELSE table_chunk_map[k]]
    ELSE Append(table_chunk_map,
                [table_id |-> line.table_id,
                 chunks |-> push_row(<<>>, line.row.time, line.row)])

\* Mutant: the entry of the table is replaced by a new TableChunks
convert_qualified_line_NewEntry(line, table_chunk_map, gen1_duration) ==
    LET chunk_time == chunk_time_for_timestamp(gen1_duration, line.row.time)
        fresh == [table_id |-> line.table_id,
                  chunks |-> push_row(<<>>, chunk_time, line.row)]
    IN  IF \E k \in DOMAIN table_chunk_map : table_chunk_map[k].table_id = line.table_id
        THEN [k \in DOMAIN table_chunk_map |->
                 IF table_chunk_map[k].table_id = line.table_id THEN fresh
                 ELSE table_chunk_map[k]]
        ELSE Append(table_chunk_map, fresh)

\* convert_qualified_line: table_chunk_map.entry(table_id).or_default().push_row
convert_qualified_line(line, table_chunk_map, gen1_duration) ==
    LET chunk_time == chunk_time_for_timestamp(gen1_duration, line.row.time)
    IN  IF \E k \in DOMAIN table_chunk_map : table_chunk_map[k].table_id = line.table_id
        THEN [k \in DOMAIN table_chunk_map |->
                 IF table_chunk_map[k].table_id = line.table_id
                 THEN [table_chunk_map[k] EXCEPT
                          !.chunks = push_row(@, chunk_time, line.row)]
                 ELSE table_chunk_map[k]]
        ELSE Append(table_chunk_map,
                    [table_id |-> line.table_id,
                     chunks |-> push_row(<<>>, chunk_time, line.row)])

RECURSIVE ConvertLoop(_, _, _, _)
ConvertLoop(acc, lines, i, gen1_duration) ==
    IF i > Len(lines) THEN acc
    ELSE ConvertLoop(
             [table_chunks |-> convert_qualified_line(lines[i], acc.table_chunks,
                                                      gen1_duration),
              field_count |-> acc.field_count + lines[i].field_count,
              index_count |-> acc.index_count + lines[i].index_count],
             lines, i + 1, gen1_duration)

WriteBatch(table_chunks) ==
    [database_id |-> 0, database_name |-> "test", table_chunks |-> table_chunks]

ValidatedLines(line_count, valid_bytes_count, field_count, index_count, errors, valid_data, catalog_updates) ==
    [line_count |-> line_count, valid_bytes_count |-> valid_bytes_count,
     field_count |-> field_count, index_count |-> index_count,
     errors |-> errors, valid_data |-> valid_data,
     catalog_updates |-> catalog_updates]
NoValidatedLines == ValidatedLines(0, 0, 0, 0, <<>>, WriteBatch(<<>>), None)

convert_lines_to_buffer(parsed, gen1_duration) ==
    LET acc == ConvertLoop([table_chunks |-> <<>>, field_count |-> 0,
                            index_count |-> 0], parsed.lines, 1, gen1_duration)
    IN  ValidatedLines(Len(parsed.lines), parsed.bytes, acc.field_count,
                       acc.index_count, parsed.errors,
                       WriteBatch(acc.table_chunks), parsed.catalog_batch)

\* ------------------------------------------------------------------- state
VARIABLES
    catalog,        \* the shared catalog
    policy,         \* how the catalog resolves names published under another id
    nextTableId,    \* TableId::new(): process-wide counter
    nextColumnId,   \* ColumnId::new(): process-wide counter
    calls,          \* validators initialized so far
    state,          \* per validator: its type state, or how its call ended
    withCatalog,    \* per validator: WithCatalog {db_schema, time_now_ns}
    linesParsed,    \* per validator: LinesParsed
    returned,       \* per validator: the Err the parse call returned
    validated,      \* per validator: the ValidatedLines it produced
    hist,           \* per validator: the inputs and the record of its call
    installed       \* line shapes qualified by a call that reached LinesParsed

vars == <<catalog, policy, nextTableId, nextColumnId, calls, state, withCatalog,
          linesParsed, returned, validated, hist, installed>>

\* The inputs tried
TimeNows == {7}
IngestTimes == {42}
PrecisionInputs == {"Auto"}

WithCatalog(db_schema, time_now_ns) ==
    [db_schema |-> db_schema, time_now_ns |-> time_now_ns]

\* measurement, tag keys and field names with their types
Shape(line) ==
    [measurement |-> line.measurement,
     tags |-> [j \in DOMAIN line.tag_set |-> line.tag_set[j].key],
     fields |-> [j \in DOMAIN line.field_set |->
                    <<line.field_set[j].name, line.field_set[j].type>>]]

History(lp, accept_partial, ingest_time, precision, tokens, trace, applied, catalogBefore, idsBefore, known, gen1_duration) ==
    [lp |-> lp, accept_partial |-> accept_partial, ingest_time |-> ingest_time,
     precision |-> precision, tokens |-> tokens, trace |-> trace,
     applied |-> applied, catalogBefore |-> catalogBefore,
     idsBefore |-> idsBefore, known |-> known, gen1_duration |-> gen1_duration,
     converted |-> 0, idsAtInit |-> [table |-> 0, column |-> 0]]

\* h, with the id counters as they were when the validator was initialized
InitAt(ids, h) == [h EXCEPT !.idsAtInit = ids]

NoHistory(cat, known) ==
    History(<<>>, FALSE, 0, "Auto", 0, <<>>, <<>>, cat,
            [table |-> 0, column |-> 0], known, 0)

Init ==
    /\ catalog = Catalog(FALSE, {}, 0)
    /\ policy \in Policies
    /\ nextTableId = 0
    /\ nextColumnId = 0
    /\ calls = 0
    /\ state = [v \in Validators |-> "None"]
    /\ withCatalog = [v \in Validators |-> WithCatalog(DbSchema({}), 0)]
    /\ linesParsed = [v \in Validators |-> NoLinesParsed]
    /\ returned = [v \in Validators |-> NoReturn]
    /\ validated = [v \in Validators |-> NoValidatedLines]
    /\ hist = [v \in Validators |-> NoHistory(Catalog(FALSE, {}, 0), {})]
    /\ installed = {}

\* A validator that has left WithCatalog works on private data only, so its
\* remaining steps commute with the steps of the others: they are taken before
\* another validator moves.
Busy(v) == state[v] \in {"Parsed", "Err", "Panicked", "Consumed"}
OthersIdle(v) == \A u \in Validators \ {v} : ~Busy(u)

\* Mutant: the validator starts from an empty schema, not from the catalog's
InitializeCall_EmptySnapshot(v, time_now_ns) ==
    /\ state[v] = "None"
    /\ \A u \in Validators : u < v => state[u] # "None"
    /\ OthersIdle(v)
    /\ LET db == db_or_create(catalog)
       IN  /\ catalog' = db.catalog
           /\ withCatalog' = [withCatalog EXCEPT
                                 ![v] = WithCatalog(DbSchema({}), time_now_ns)]
           /\ hist' = [hist EXCEPT
                  ![v] = [NoHistory(db.catalog, installed) EXCEPT
                             !.idsAtInit = [table |-> nextTableId,
                                            column |-> nextColumnId]]]
    /\ calls' = calls + 1
    /\ state' = [state EXCEPT ![v] = "WithCatalog"]
    /\ linesParsed' = [linesParsed EXCEPT ![v] = NoLinesParsed]
    /\ returned' = [returned EXCEPT ![v] = NoReturn]
    /\ validated' = [validated EXCEPT ![v] = NoValidatedLines]
    /\ UNCHANGED <<policy, nextTableId, nextColumnId, installed>>

\* The body of WriteValidator::initialize, on the lowest validator slot that
\* is free: the validator takes the schema of the database from the catalog
InitializeCall(v, time_now_ns) ==
    /\ state[v] = "None"
    /\ \A u \in Validators : u < v => state[u] # "None"
    /\ OthersIdle(v)
    /\ LET db == db_or_create(catalog)
       IN  /\ catalog' = db.catalog
           /\ withCatalog' = [withCatalog EXCEPT
                                 ![v] = WithCatalog(db.db_schema, time_now_ns)]
           /\ hist' = [hist EXCEPT
                  ![v] = [NoHistory(db.catalog, installed) EXCEPT
                             !.idsAtInit = [table |-> nextTableId,
                                            column |-> nextColumnId]]]
    /\ calls' = calls + 1
    /\ state' = [state EXCEPT ![v] = "WithCatalog"]
    /\ linesParsed' = [linesParsed EXCEPT ![v] = NoLinesParsed]
    /\ returned' = [returned EXCEPT ![v] = NoReturn]
    /\ validated' = [validated EXCEPT ![v] = NoValidatedLines]
    /\ UNCHANGED <<policy, nextTableId, nextColumnId, installed>>

\* WriteValidator::initialize, over at most MaxCalls calls
Initialize(v, time_now_ns) ==
    /\ calls < MaxCalls
    /\ InitializeCall(v, time_now_ns)

\* WriteValidator<WithCatalog>::parse_lines_and_update_schema
ParseLinesAndUpdateSchema(v, lp, accept_partial, ingest_time, precision, fails) ==
    /\ state[v] = "WithCatalog"
    /\ OthersIdle(v)
    /\ \E st \in {ParseLoop(LoopState(withCatalog[v].db_schema,
                                      [table |-> nextTableId, column |-> nextColumnId]),
                            1, parse_lines(lp), lp, accept_partial, ingest_time,
                            precision)} :
       \E pub \in {IF st.status = "Running"
                   THEN PublishUpdates(st.catalog_updates, withCatalog[v].time_now_ns,
                                       catalog, policy, fails)
                   ELSE NotPublished(withCatalog[v].time_now_ns, catalog)} :
           /\ state' = [state EXCEPT ![v] = CallEnd(st, pub)]
           /\ returned' = [returned EXCEPT ![v] = CallError(st, pub)]
           /\ linesParsed' = [linesParsed EXCEPT
                  ![v] = IF CallEnd(st, pub) = "Parsed"
                         THEN LinesParsed(st.lines, st.bytes, pub.catalog_batch,
                                          st.errors)
                         ELSE NoLinesParsed]
           /\ catalog' = pub.catalog
           /\ nextTableId' = st.ids.table
           /\ nextColumnId' = st.ids.column
           /\ hist' = [hist EXCEPT
                  ![v] = InitAt(hist[v].idsAtInit,
                         History(lp, accept_partial, ingest_time, precision,
                                 Len(parse_lines(lp)), st.trace,
                                 IF pub.called
                                 THEN <<[batch |-> pub.batch, result |-> pub.result,
                                         ordered |-> pub.catalog_batch,
                                         processed |-> Len(st.trace)]>>
                                 ELSE <<>>,
                                 catalog,
                                 [table |-> nextTableId, column |-> nextColumnId],
                                 hist[v].known, 0))]
           /\ installed' =
                  IF CallEnd(st, pub) = "Parsed"
                  THEN installed \cup
                       {Shape(st.trace[k].line.parsed) :
                           k \in {k \in DOMAIN st.trace : st.trace[k].status = "Ok"}}
                  ELSE installed
    /\ UNCHANGED <<policy, calls, withCatalog, validated>>

\* WriteValidator<LinesParsed>::convert_lines_to_buffer
ConvertLinesToBuffer(v, gen1_duration) ==
    /\ state[v] = "Parsed"
    /\ state' = [state EXCEPT ![v] = "Consumed"]
    /\ validated' = [validated EXCEPT
                        ![v] = convert_lines_to_buffer(linesParsed[v], gen1_duration)]
    /\ hist' = [hist EXCEPT ![v].gen1_duration = gen1_duration,
                             ![v].converted = @ + 1]
    /\ UNCHANGED <<catalog, policy, nextTableId, nextColumnId, calls, withCatalog,
                   linesParsed, returned, installed>>

\* The caller takes what the call returned (the error, or the WriteBatch out
\* of the ValidatedLines); the validator itself was consumed by the call
Drop(v) ==
    /\ state[v] \in {"Err", "Panicked", "Consumed"}
    /\ state' = [state EXCEPT ![v] = "None"]
    /\ withCatalog' = [withCatalog EXCEPT ![v] = WithCatalog(DbSchema({}), 0)]
    /\ linesParsed' = [linesParsed EXCEPT ![v] = NoLinesParsed]
    /\ returned' = [returned EXCEPT ![v] = NoReturn]
    /\ validated' = [validated EXCEPT ![v] = NoValidatedLines]
    /\ hist' = [hist EXCEPT ![v] = NoHistory(Catalog(FALSE, {}, 0), {})]
    /\ UNCHANGED <<catalog, policy, nextTableId, nextColumnId, calls, installed>>

Next ==
    \/ \E v \in Validators, time_now_ns \in TimeNows : Initialize(v, time_now_ns)
    \/ \E v \in Validators, lp \in Payloads, accept_partial \in BOOLEAN,
          ingest_time \in IngestTimes, precision \in PrecisionInputs,
          fails \in BOOLEAN :
          ParseLinesAndUpdateSchema(v, lp, accept_partial, ingest_time, precision, fails)
    \/ \E v \in Validators, gen1_duration \in Gen1Durations :
          ConvertLinesToBuffer(v, gen1_duration)
    \/ \E v \in Validators : Drop(v)

Spec == Init /\ [][Next]_vars

\* ------------------------------------------- the calls under every precision
\* The same validator, tried with each declared precision over PrecisionCalls
\* calls (Spec keeps to the Auto precision of PrecisionInputs)
InitializeForPrecision(v, time_now_ns) ==
    /\ calls < PrecisionCalls
    /\ Initialize(v, time_now_ns)

NextPrecision ==
    \/ \E v \in Validators, time_now_ns \in TimeNows :
          InitializeForPrecision(v, time_now_ns)
    \/ \E v \in Validators, lp \in Payloads, accept_partial \in BOOLEAN,
          ingest_time \in IngestTimes, precision \in Precisions,
          fails \in BOOLEAN :
          ParseLinesAndUpdateSchema(v, lp, accept_partial, ingest_time, precision, fails)
    \/ \E v \in Validators, gen1_duration \in Gen1Durations :
          ConvertLinesToBuffer(v, gen1_duration)
    \/ \E v \in Validators : Drop(v)

SpecPrecision == Init /\ [][NextPrecision]_vars

\* ------------------------------------------- writers racing on one column
\* RaceCalls calls of one-line payloads on the table cpu: the line that
\* creates it and the line that adds the field val2 to it.  The catalog
\* answers every publication (no injected failure).
RacePayloads == {<<LpCpu1>>, <<LpCpuAdd>>}

InitializeForRace(v, time_now_ns) ==
    /\ calls < RaceCalls
    /\ InitializeCall(v, time_now_ns)

NextRace ==
    \/ \E v \in Validators, time_now_ns \in TimeNows :
          InitializeForRace(v, time_now_ns)
    \/ \E v \in Validators, lp \in RacePayloads, accept_partial \in BOOLEAN,
          ingest_time \in IngestTimes, precision \in PrecisionInputs :
          ParseLinesAndUpdateSchema(v, lp, accept_partial, ingest_time, precision, FALSE)
    \/ \E v \in Validators, gen1_duration \in Gen1Durations :
          ConvertLinesToBuffer(v, gen1_duration)
    \/ \E v \in Validators : Drop(v)

SpecRace == Init /\ [][NextRace]_vars

\* =================================================================== claims
\* Positions of the trace whose line was qualified / was not
Qualified(h) == {k \in DOMAIN h.trace : h.trace[k].status = "Ok"}
Failing(h) == {k \in DOMAIN h.trace : h.trace[k].status # "Ok"}
\* The ops staged by the qualified lines, in line order
StagedOps(h) ==
    LET WithOp(k) == h.trace[k].status = "Ok" /\ h.trace[k].catalog_op.some
    IN  SubSeqWhere([k \in DOMAIN h.trace |->
                        IF WithOp(k) THEN Unwrap(h.trace[k].catalog_op)
                        ELSE AddFields(-1, "", <<>>)],
                    {k \in DOMAIN h.trace : WithOp(k)})
\* All rows of a write batch
BatchRows(write_batch) ==
    UNION {UNION {{[table_id |-> tc.table_id, chunk_time |-> c.chunk_time,
                    row |-> c.rows[i]] : i \in DOMAIN c.rows} :
                  c \in Range(tc.chunks)} :
           tc \in Range(write_batch.table_chunks)}
\* The call of v has ended (in LinesParsed, an error or a panic)
Ended(v) == state[v] \in {"Parsed", "Err", "Panicked", "Consumed"}

\* C1: strict mode.  When a line of a batch parsed with accept_partial = FALSE
\* fails, the call returns the ParseError of the first failing line, never
\* invokes apply_catalog_batch and leaves the catalog as it was.
C1_StrictAtomicity ==
    \A v \in Validators :
        LET h == hist[v]
        IN  (Ended(v) /\ ~h.accept_partial /\ Failing(h) # {}) =>
                /\ state[v] = "Err"
                /\ returned[v].kind = "ParseError"
                /\ returned[v].err.line_number = Min(Failing(h))
                /\ h.applied = <<>>
                /\ catalog = h.catalogBefore

\* C2: no row references an unknown column.  Once the batch is published,
\* every ColumnId of every row of the write batch is a column of the row's
\* table in the catalog.
C2_RowsReferenceCatalogColumns ==
    \A v \in Validators :
        state[v] = "Consumed" =>
            \A r \in BatchRows(validated[v].valid_data) :
                \E t \in catalog.tables :
                    /\ t.table_id = r.table_id
                    /\ \A j \in DOMAIN r.row.fields :
                           r.row.fields[j].id \in ColumnIds(t)

\* C3: a publication failure aborts the whole call.  When apply_catalog_batch
\* returns an error the call returns it, LinesParsed is not reached, no row
\* and no error list is handed over, and the catalog is unchanged.
C3_PublicationFailureAborts ==
    \A v \in Validators :
        LET h == hist[v]
        IN  (h.applied # <<>> /\ h.applied[1].result = "Err") =>
                /\ state[v] = "Err"
                /\ returned[v].kind = "Catalog"
                /\ linesParsed[v] = NoLinesParsed
                /\ validated[v] = NoValidatedLines
                /\ catalog = h.catalogBefore

\* C3 witness: a partial-acceptance batch with a qualified line and a
\* rejected one, whose publication failed
C3_Witness ==
    \E v \in Validators :
        /\ hist[v].applied # <<>>
        /\ hist[v].applied[1].result = "Err"
        /\ hist[v].accept_partial
        /\ Cardinality(Qualified(hist[v])) >= 1
        /\ Failing(hist[v]) # {}

\* C4 as claimed: a batch parsed with accept_partial = TRUE always ends in
\* LinesParsed
C4_PartialAlwaysSucceeds ==
    \A v \in Validators :
        (Ended(v) /\ hist[v].accept_partial) => state[v] \in {"Parsed", "Consumed"}

\* The errors of the rejected lines, in line order
LineErrors(h) ==
    LET rejected == {k \in DOMAIN h.trace : h.trace[k].status = "Err"}
    IN  SubSeqWhere([k \in DOMAIN h.trace |-> h.trace[k].err], rejected)

\* C4 amended: a batch parsed with accept_partial = TRUE never returns a
\* per-line ParseError.  The only error it returns is the error of the catalog
\* publication, and when it returns LinesParsed the errors list holds exactly
\* the errors of the rejected lines.
C4_PartialNeverParseError ==
    \A v \in Validators :
        LET h == hist[v]
        IN  (Ended(v) /\ h.accept_partial) =>
                /\ returned[v].kind # "ParseError"
                /\ state[v] = "Err" =>
                       /\ returned[v].kind = "Catalog"
                       /\ h.applied # <<>>
                       /\ h.applied[1].result = "Err"
                /\ state[v] \in {"Parsed", "Consumed"} =>
                       linesParsed[v].errors = LineErrors(h)

\* C4 witness: a partial batch in LinesParsed with a rejected and a qualified line
C4_Witness ==
    \E v \in Validators :
        /\ state[v] = "Parsed"
        /\ hist[v].accept_partial
        /\ Failing(hist[v]) # {}
        /\ Qualified(hist[v]) # {}
        /\ Len(linesParsed[v].errors) = 1

\* The line of trace entry e writes, with another type, a field column that
\* the table had when the line was reached
WritesOtherType(e) ==
    /\ e.line.kind = "rec"
    /\ \E t \in e.schemaBefore :
           /\ t.table_name = e.line.parsed.measurement
           /\ \E c \in Range(t.columns), f \in Range(e.line.parsed.field_set) :
                  /\ c.data_type \notin {"Tag", "Timestamp"}
                  /\ f.name = c.name
                  /\ f.type # c.data_type

\* C5: type immutability.  A line that writes an established field column
\* with another type fails with a type-mismatch error, emits no row and no
\* op and leaves the shadow schema alone; in strict mode the call fails and
\* the catalog is unchanged.
C5_TypeImmutability ==
    \A v \in Validators :
        LET h == hist[v]
        IN  \A k \in DOMAIN h.trace :
                LET e == h.trace[k]
                IN  WritesOtherType(e) =>
                        /\ e.status = "Err"
                        /\ e.err.error_message.kind = "TypeMismatch"
                        /\ e.qualified = NoQualifiedLine
                        /\ e.catalog_op = None
                        /\ e.schemaAfter = e.schemaBefore
                        /\ state[v] \in {"Parsed", "Consumed"} =>
                               Len(linesParsed[v].lines) = Cardinality(Qualified(h))
                        /\ ~h.accept_partial =>
                               /\ state[v] = "Err"
                               /\ h.applied = <<>>
                               /\ catalog = h.catalogBefore

\* C5 witness: the column was staged by the line before, in the same batch
C5_Witness ==
    \E v \in Validators :
        /\ withCatalog[v].db_schema.tables = {}
        /\ Len(hist[v].trace) = 2
        /\ hist[v].trace[1].status = "Ok"
        /\ WritesOtherType(hist[v].trace[2])

\* The ids the row of a qualified trace entry uses for the columns named x
RowIdsFor(e, x) ==
    LET line == e.line.parsed
        row == e.qualified.row
    IN  {row.fields[j].id : j \in {j \in DOMAIN line.tag_set : line.tag_set[j].key = x}}
        \cup {row.fields[Len(line.tag_set) + j].id :
                 j \in {j \in DOMAIN line.field_set : line.field_set[j].name = x}}
        \cup (IF x = TIME_COLUMN_NAME THEN {row.fields[Len(row.fields)].id} ELSE {})
\* The column names a line uses
NamesUsed(line) ==
    {line.tag_set[j].key : j \in DOMAIN line.tag_set}
    \cup {line.field_set[j].name : j \in DOMAIN line.field_set}
    \cup {TIME_COLUMN_NAME}
DefinedIds(op, x) == {d.id : d \in {d \in Range(op.field_definitions) : d.name = x}}

\* C6: staged schema is visible to the later lines of the batch.  After a
\* qualified line that introduced a table or a column x, a later qualified
\* line on that table mints no table id, uses the same TableId and, for x, the
\* same ColumnId, and the staged ops hold one CreateTable for the table and
\* one definition of x.
C6_WithinBatchVisibility ==
    \A v \in Validators :
        LET h == hist[v]
            ops == StagedOps(h)
        IN  \A i, j \in Qualified(h) :
                (/\ i < j
                 /\ h.trace[i].catalog_op.some
                 /\ h.trace[i].line.parsed.measurement = h.trace[j].line.parsed.measurement) =>
                    LET op == Unwrap(h.trace[i].catalog_op)
                        ej == h.trace[j]
                        m == ej.line.parsed.measurement
                    IN  /\ ej.qualified.table_id = op.table_id
                        /\ ej.idsAfter.table = ej.idsBefore.table
                        /\ op.op = "CreateTable" =>
                               Cardinality({n \in DOMAIN ops :
                                               /\ ops[n].op = "CreateTable"
                                               /\ ops[n].table_name = m}) = 1
                        /\ \A x \in NamesUsed(ej.line.parsed) :
                               DefinedIds(op, x) # {} =>
                                   /\ RowIdsFor(ej, x) = DefinedIds(op, x)
                                   /\ \A id \in RowIdsFor(ej, x) : id < ej.idsBefore.column
                                   /\ Cardinality({<<n, d>> \in
                                          (DOMAIN ops) \X (1..(2 * MaxLines + 2)) :
                                              /\ ops[n].table_name = m
                                              /\ d \in DOMAIN ops[n].field_definitions
                                              /\ ops[n].field_definitions[d].name = x}) = 1

\* C6 witness: two lines add the same new field to a resident table
C6_Witness ==
    \E v \in Validators :
        LET h == hist[v]
        IN  /\ Qualified(h) = {1, 2}
            /\ h.trace[1].catalog_op.some
            /\ Unwrap(h.trace[1].catalog_op).op = "AddFields"
            /\ h.trace[2].line = h.trace[1].line
            /\ state[v] = "Parsed"

\* C7: id stability across calls.  A validator initialized after a call that
\* qualified and published a line shape qualifies a line of that shape without
\* minting an id or staging an op, its row uses ids of the catalog, and a
\* batch of such lines carries no catalog update.
C7_IdStability ==
    \A v \in Validators :
        LET h == hist[v]
            Known(k) == /\ h.trace[k].line.kind = "rec"
                        /\ Shape(h.trace[k].line.parsed) \in h.known
        IN  /\ \A k \in DOMAIN h.trace :
                   Known(k) =>
                       LET e == h.trace[k]
                       IN  /\ e.status = "Ok"
                           /\ e.idsAfter = e.idsBefore
                           /\ e.catalog_op = None
                           /\ \A tables \in {catalog.tables, withCatalog[v].db_schema.tables} :
                                  \E t \in tables :
                                      /\ t.table_id = e.qualified.table_id
                                      /\ \A f \in Range(e.qualified.row.fields) :
                                             f.id \in ColumnIds(t)
            /\ (/\ state[v] \in {"Parsed", "Consumed"}
                /\ \A k \in DOMAIN h.trace : Known(k)) =>
                   /\ h.applied = <<>>
                   /\ linesParsed[v].catalog_batch = None
                   /\ nextColumnId = h.idsBefore.column
                   /\ nextTableId = h.idsBefore.table

\* C7 witness: a second call with the line of the first has produced its rows
C7_Witness ==
    \E v \in Validators :
        /\ state[v] = "Consumed"
        /\ hist[v].trace # <<>>
        /\ \A k \in DOMAIN hist[v].trace :
               /\ hist[v].trace[k].line.kind = "rec"
               /\ Shape(hist[v].trace[k].line.parsed) \in hist[v].known
        /\ validated[v].catalog_updates = None
        /\ validated[v].line_count >= 1

\* C8: the published ops are the staged ops.  apply_catalog_batch is called
\* at most once per call, after the last line, with the ops of the qualified
\* lines in line order and time_ns = time_now_ns.
C8_PublishedOpsAreStagedOps ==
    \A v \in Validators :
        LET h == hist[v]
        IN  /\ Len(h.applied) <= 1
            /\ h.applied # <<>> =>
                   /\ h.applied[1].batch.ops = StagedOps(h)
                   /\ h.applied[1].batch.time_ns = withCatalog[v].time_now_ns
                   /\ h.applied[1].processed = h.tokens
            /\ (state[v] \in {"Parsed", "Consumed"} /\ StagedOps(h) # <<>>) =>
                   h.applied # <<>>

\* C8 witness: a batch of two ops was published
C8_Witness ==
    \E v \in Validators :
        /\ hist[v].applied # <<>>
        /\ Len(hist[v].applied[1].batch.ops) = 2
        /\ hist[v].applied[1].batch.ops[1].table_name = "mem"
        /\ hist[v].applied[1].result = "Ok"

\* C9: type-state ordering.  convert_lines_to_buffer runs at most once per
\* validator and only after parse_lines_and_update_schema returned LinesParsed:
\* every line was processed, none failed in strict mode, and the publication
\* succeeded or was not needed.  It yields a ValidatedLines for every
\* LinesParsed state and every chunk window.
C9_TypeStateOrdering ==
    \A v \in Validators :
        LET h == hist[v]
        IN  /\ h.converted <= 1
            /\ state[v] # "Consumed" => h.converted = 0
            /\ state[v] = "Consumed" =>
                   /\ h.converted = 1
                   /\ Len(h.trace) = h.tokens
                   /\ \A k \in DOMAIN h.trace : h.trace[k].status # "Panic"
                   /\ ~h.accept_partial => Failing(h) = {}
                   /\ \/ h.applied = <<>> /\ StagedOps(h) = <<>>
                      \/ h.applied # <<>> /\ h.applied[1].result = "Ok"
                   /\ validated[v].line_count = Len(linesParsed[v].lines)
                   /\ validated[v].errors = linesParsed[v].errors
            /\ state[v] = "Parsed" =>
                   \A g \in Gen1Durations :
                       convert_lines_to_buffer(linesParsed[v], g).line_count
                           = Len(linesParsed[v].lines)

\* C9 witness: converted after a publication that succeeded
C9_Witness ==
    \E v \in Validators :
        /\ state[v] = "Consumed"
        /\ hist[v].applied # <<>>
        /\ validated[v].catalog_updates # None
        /\ validated[v].errors # <<>>

\* The positions of the rows of a write batch
RowPositions(write_batch) ==
    LET tcs == write_batch.table_chunks
    IN  UNION {UNION {{<<a, b, i>> : i \in DOMAIN tcs[a].chunks[b].rows} :
                      b \in DOMAIN tcs[a].chunks} :
               a \in DOMAIN tcs}

\* C10: conservation under partial acceptance.  Every tokenized line is one
\* row of the write batch or one entry of errors: the rows are the qualified
\* lines, the errors the rejected ones, and together they are all the lines.
C10_PartialConservation ==
    \A v \in Validators :
        LET h == hist[v]
            rows == Cardinality(RowPositions(validated[v].valid_data))
        IN  (state[v] = "Consumed" /\ h.accept_partial) =>
                /\ Len(validated[v].errors) + rows = h.tokens
                /\ rows = Cardinality(Qualified(h))
                /\ Len(validated[v].errors) = Cardinality(Failing(h))

\* C10 witness: a converted partial-acceptance batch of two tokenized lines,
\* one rejected into errors and one placed as a row
C10_Witness ==
    \E v \in Validators :
        /\ state[v] = "Consumed"
        /\ hist[v].accept_partial
        /\ hist[v].tokens = 2
        /\ Len(hist[v].lp) = 2
        /\ Len(validated[v].errors) = 1
        /\ Cardinality(RowPositions(validated[v].valid_data)) = 1

\* C11 as claimed: line_count is the number of input lines attempted, the
\* qualified lines plus the lines rejected per line under partial acceptance.
C11_LineCountCountsRejected ==
    \A v \in Validators :
        state[v] = "Consumed" =>
            validated[v].line_count =
                Cardinality(Qualified(hist[v])) + Cardinality(Failing(hist[v]))

\* The byte lengths of the raw lines the tokenizer made the tokens K of
RECURSIVE TokenBytes(_, _)
TokenBytes(trace, K) ==
    IF K = {} THEN 0
    ELSE LET k == Min(K)
         IN  trace[k].line.len + TokenBytes(trace, K \ {k})

\* C12 as claimed: valid_bytes_count is the sum of the byte lengths of the raw
\* lines that were qualified, and of no other line, also when the payload holds
\* blank, comment or rejected lines.
C12_ValidBytesOfQualifiedLines ==
    \A v \in Validators :
        LET h == hist[v]
        IN  /\ state[v] \in {"Parsed", "Consumed"} =>
                   linesParsed[v].bytes = TokenBytes(h.trace, Qualified(h))
            /\ state[v] = "Consumed" =>
                   validated[v].valid_bytes_count = TokenBytes(h.trace, Qualified(h))

\* The position in the payload of the raw line that became token k
TokenPosition(lp, k) ==
    CHOOSE i \in DOMAIN lp :
        /\ lp[i].kind # "skip"
        /\ Cardinality({j \in 1..i : lp[j].kind # "skip"}) = k

\* C13 as claimed: every per-line error (the ParseError of a strict batch, each
\* entry of errors of a partial one) carries the 1-based position in the
\* payload of the offending line and that line's text, and a type-mismatch
\* message prints the number the error carries.
C13_ErrorsLocateTheLine ==
    \A v \in Validators :
        LET h == hist[v]
        IN  Ended(v) =>
                \A k \in DOMAIN h.trace :
                    h.trace[k].status = "Err" =>
                        LET e == h.trace[k].err
                            i == TokenPosition(h.lp, k)
                        IN  /\ e.line_number = i
                            /\ e.original_line = h.lp[i].text
                            /\ e.error_message.kind = "TypeMismatch" =>
                                   e.error_message.line = e.line_number

\* C14: bucketing.  Every row placed by convert_lines_to_buffer under
\* (table_id, chunk_time) with window w has chunk_time <= time < chunk_time + w
\* and chunk_time a multiple of w, negative times included, and lies under the
\* table_id of the line that produced it.
C14_Bucketing ==
    \A v \in Validators :
        state[v] = "Consumed" =>
            LET h == hist[v]
                w == h.gen1_duration
                rows == BatchRows(validated[v].valid_data)
            IN  /\ \A b \in rows :
                       /\ b.row.time - b.chunk_time >= 0
                       /\ b.row.time - b.chunk_time < w
                       /\ b.chunk_time % w = 0
                       /\ \E k \in Qualified(h) :
                              /\ h.trace[k].qualified.row = b.row
                              /\ h.trace[k].qualified.table_id = b.table_id
                /\ \A k \in Qualified(h) :
                       \E b \in rows :
                           /\ b.row = h.trace[k].qualified.row
                           /\ b.table_id = h.trace[k].qualified.table_id

\* C14 witness: a row with a negative time that is not the start of its window
C14_Witness ==
    \E v \in Validators :
        /\ state[v] = "Consumed"
        /\ \E b \in BatchRows(validated[v].valid_data) :
               /\ b.row.time < 0
               /\ b.chunk_time < b.row.time
               /\ b.chunk_time % hist[v].gen1_duration = 0

\* The qualified lines of the call, in the order of their input lines
QualifiedInOrder(h) ==
    SubSeqWhere([k \in DOMAIN h.trace |-> h.trace[k].qualified], Qualified(h))

\* C15: order preservation.  The rows of each (table, chunk) bucket are the
\* rows of the qualified lines of that table and window in input order, tables
\* and chunks stand in the order of their first row, and errors holds the
\* errors of the rejected lines in input order.
C15_OrderPreservation ==
    \A v \in Validators :
        state[v] = "Consumed" =>
            LET h == hist[v]
                w == h.gen1_duration
                q == QualifiedInOrder(h)
                tcs == validated[v].valid_data.table_chunks
                OfTable(a) == {n \in DOMAIN q : q[n].table_id = tcs[a].table_id}
                OfChunk(a, c) ==
                    {n \in OfTable(a) :
                        /\ q[n].row.time - tcs[a].chunks[c].chunk_time >= 0
                        /\ q[n].row.time - tcs[a].chunks[c].chunk_time < w}
            IN  /\ \A a \in DOMAIN tcs :
                       /\ OfTable(a) # {}
                       /\ \A c \in DOMAIN tcs[a].chunks :
                              /\ OfChunk(a, c) # {}
                              /\ tcs[a].chunks[c].rows =
                                     SubSeqWhere([n \in DOMAIN q |-> q[n].row],
                                                 OfChunk(a, c))
                       /\ \A c, d \in DOMAIN tcs[a].chunks :
                              c < d => Min(OfChunk(a, c)) < Min(OfChunk(a, d))
                /\ \A a, b \in DOMAIN tcs :
                       a < b => Min(OfTable(a)) < Min(OfTable(b))
                /\ validated[v].errors = LineErrors(h)

\* C15 witness: a converted batch whose two lines gave two different rows of
\* one (table, chunk) bucket
C15_Witness ==
    \E v \in Validators :
        /\ state[v] = "Consumed"
        /\ \E a \in DOMAIN validated[v].valid_data.table_chunks :
               \E c \in DOMAIN validated[v].valid_data.table_chunks[a].chunks :
                   LET rows == validated[v].valid_data.table_chunks[a].chunks[c].rows
                   IN  Len(rows) = 2 /\ rows[1] # rows[2]

\* Nanoseconds per unit of a declared precision, as the claim states them
NanosPer(p) ==
    CASE p = "Second" -> 1000000000
      [] p = "Millisecond" -> 1000000
      [] p = "Microsecond" -> 1000
      [] p = "Nanosecond" -> 1

\* C16: timestamp normalization.  The row time of a qualified line is
\* ts_raw * multiplier(p) for a line with a timestamp under a precision p
\* other than Auto, ts_raw times the multiplier of the guessed precision under
\* Auto, and the ingest time passed to the call for a line without timestamp;
\* the Timestamp field of the row holds the same value.
C16_TimestampNormalization ==
    \A v \in Validators :
        LET h == hist[v]
        IN  \A k \in Qualified(h) :
                LET line == h.trace[k].line.parsed
                    row == h.trace[k].qualified.row
                    stamps == {j \in DOMAIN row.fields :
                                  row.fields[j].data.kind = "Timestamp"}
                IN  /\ (line.timestamp.some /\ h.precision # "Auto") =>
                           row.time = Unwrap(line.timestamp) * NanosPer(h.precision)
                    /\ (line.timestamp.some /\ h.precision = "Auto") =>
                           \E p \in Precisions \ {"Auto"} :
                               /\ p = guess_precision(Unwrap(line.timestamp))
                               /\ row.time = Unwrap(line.timestamp) * NanosPer(p)
                    /\ ~line.timestamp.some => row.time = h.ingest_time
                    /\ stamps # {}
                    /\ \A j \in stamps : row.fields[j].data.ts = row.time

\* C16 witness: one call qualified a line with a negative timestamp under
\* Millisecond, and a line without timestamp
C16_Witness ==
    \E v \in Validators :
        LET h == hist[v]
        IN  /\ h.precision = "Millisecond"
            /\ \E k \in Qualified(h) :
                   /\ h.trace[k].line.parsed.timestamp.some
                   /\ Unwrap(h.trace[k].line.parsed.timestamp) < 0
                   /\ h.trace[k].qualified.row.time < 0
            /\ \E k \in Qualified(h) :
                   /\ ~h.trace[k].line.parsed.timestamp.some
                   /\ h.trace[k].qualified.row.time = h.ingest_time

\* The line of trace entry e is on a table that existed before it and has a
\* tag key naming a column of that table that is not a Tag column
TagNamesOtherColumn(e) ==
    /\ e.line.kind = "rec"
    /\ \E t \in e.schemaBefore :
           /\ t.table_name = e.line.parsed.measurement
           /\ \E j \in DOMAIN e.line.parsed.tag_set :
                  \E c \in Range(t.columns) :
                      /\ c.name = e.line.parsed.tag_set[j].key
                      /\ c.data_type # "Tag"

\* C17: tag type check on an existing table.  A line whose tag key names an
\* existing column of its table that is not of type Tag (a field column or the
\* time column) fails with a type-mismatch error and emits no row.
C17_TagTypeChecked ==
    \A v \in Validators :
        \A k \in DOMAIN hist[v].trace :
            LET e == hist[v].trace[k]
            IN  TagNamesOtherColumn(e) =>
                    /\ e.status = "Err"
                    /\ e.err.error_message.kind = "TypeMismatch"
                    /\ e.qualified = NoQualifiedLine

\* The ids of the time columns of the table of id table_id in a set of tables
TimeColumnIds(tables, table_id) ==
    UNION {{c.id : c \in {c \in Range(t.columns) : c.name = TIME_COLUMN_NAME}} :
              t \in {t \in tables : t.table_id = table_id}}

\* C18: every emitted row holds the ColumnId of its table's time column
\* exactly once, as the last entry of its field list, on the existing-table
\* and on the new-table path, lines with keys named `time` included.
C18_TimeColumnOnceAndLast ==
    \A v \in Validators :
        \A k \in Qualified(hist[v]) :
            LET e == hist[v].trace[k]
                fields == e.qualified.row.fields
            IN  /\ fields # <<>>
                /\ TimeColumnIds(e.schemaAfter, e.qualified.table_id)
                       = {fields[Len(fields)].id}
                /\ Cardinality({j \in DOMAIN fields :
                                   fields[j].id = fields[Len(fields)].id}) = 1

\* C19: a failing line unwinds its staging.  For every line that ended in an
\* error the shadow schema after the line equals the shadow schema before it
\* and the line staged no op; every line starts from the schema the line
\* before it left, and every published op is the op of a qualified line.
C19_FailingLineUnwinds ==
    \A v \in Validators :
        LET h == hist[v]
        IN  /\ \A k \in DOMAIN h.trace :
                   /\ h.trace[k].status = "Err" =>
                          /\ h.trace[k].schemaAfter = h.trace[k].schemaBefore
                          /\ h.trace[k].catalog_op = None
                   /\ k > 1 => h.trace[k].schemaBefore = h.trace[k - 1].schemaAfter
            /\ \A a \in DOMAIN h.applied :
                   \A i \in DOMAIN h.applied[a].batch.ops :
                       \E k \in Qualified(h) :
                           h.trace[k].catalog_op = Some(h.applied[a].batch.ops[i])

\* C19 witness: in a partial batch a line failed while staging its columns,
\* the next line on the same table qualified, and its op alone was published
C19_Witness ==
    \E v \in Validators :
        LET h == hist[v]
        IN  /\ h.accept_partial
            /\ Len(h.trace) = 2
            /\ h.trace[1].status = "Err"
            /\ h.trace[1].err.error_message.kind = "Schema"
            /\ h.trace[2].status = "Ok"
            /\ h.trace[2].line.parsed.measurement = h.trace[1].line.parsed.measurement
            /\ h.trace[2].catalog_op.some
            /\ h.applied # <<>>
            /\ Len(h.applied[1].batch.ops) = 1

\* The tables named as the line of trace entry e, before and after the line
TablesBefore(e) == {t \in e.schemaBefore : t.table_name = e.line.parsed.measurement}
TablesAfter(e) == {t \in e.schemaAfter : t.table_name = e.line.parsed.measurement}

\* The line of e was on an unknown table: one CreateTable whose
\* field_definitions are the tags, then the fields, then time, under the ids
\* of the row, and whose key is the ids of the tags in order
CreatesItsTable(e) ==
    LET line == e.line.parsed
        fields == e.qualified.row.fields
        nt == Len(line.tag_set)
        nf == Len(line.field_set)
        defs == [j \in 1..(nt + nf + 1) |->
                    IF j <= nt THEN Column(fields[j].id, line.tag_set[j].key, "Tag")
                    ELSE IF j <= nt + nf
                    THEN Column(fields[j].id, line.field_set[j - nt].name,
                                line.field_set[j - nt].type)
                    ELSE Column(fields[j].id, TIME_COLUMN_NAME, "Timestamp")]
    IN  /\ Len(fields) = nt + nf + 1
        /\ e.catalog_op =
               Some(CreateTable(e.qualified.table_id, line.measurement, defs,
                                [j \in 1..nt |-> fields[j].id]))
        /\ \A i, j \in 1..(nt + nf + 1) : fields[i].id = fields[j].id => i = j

\* The line of e was on the existing table t: an AddFields holding, once
\* each, exactly the columns the table gained and none it had, or no op
AddsItsColumns(e, t) ==
    \E u \in TablesAfter(e) :
        LET gained == Range(u.columns) \ Range(t.columns)
        IN  /\ TablesAfter(e) = {u}
            /\ u.table_id = t.table_id
            /\ gained = {} => e.catalog_op = None
            /\ gained # {} =>
                   /\ e.catalog_op.some
                   /\ Unwrap(e.catalog_op).op = "AddFields"
                   /\ Unwrap(e.catalog_op).table_id = t.table_id
                   /\ Unwrap(e.catalog_op).table_name = t.table_name
                   /\ Range(Unwrap(e.catalog_op).field_definitions) = gained
                   /\ Len(Unwrap(e.catalog_op).field_definitions) = Cardinality(gained)
                   /\ u.columns = t.columns \o Unwrap(e.catalog_op).field_definitions
                   /\ \A c \in gained : c.name \notin ColumnNames(t)

\* C20: op content matches the line's schema delta.  A qualified line on an
\* unknown table emits one CreateTable with its tags in source order, its
\* fields in source order and time last, keyed by the minted tag ids in
\* order; a qualified line on an existing table emits an AddFields of exactly
\* the columns it newly added, and no op when it added none.
C20_OpMatchesSchemaDelta ==
    \A v \in Validators :
        \A k \in Qualified(hist[v]) :
            LET e == hist[v].trace[k]
            IN  /\ TablesBefore(e) = {} => CreatesItsTable(e)
                /\ \A t \in TablesBefore(e) : AddsItsColumns(e, t)

\* C20 witness: one call whose first line created a table of a tag, a field
\* and time, and whose second line added one field to it
C20_Witness ==
    \E v \in Validators :
        LET h == hist[v]
        IN  /\ Len(h.trace) = 2
            /\ h.trace[1].status = "Ok" /\ h.trace[2].status = "Ok"
            /\ TablesBefore(h.trace[1]) = {}
            /\ Len(Unwrap(h.trace[1].catalog_op).field_definitions) = 3
            /\ Len(Unwrap(h.trace[1].catalog_op).key) = 1
            /\ TablesBefore(h.trace[2]) # {}
            /\ h.trace[2].catalog_op.some
            /\ Len(Unwrap(h.trace[2].catalog_op).field_definitions) = 1

\* The line of trace entry e is on an unknown table and names a column twice
\* among its tags, its fields and time: no table definition can be built
CannotConstructTable(e) ==
    /\ e.line.kind = "rec"
    /\ TablesBefore(e) = {}
    /\ Cardinality(NamesUsed(e.line.parsed))
           < Len(e.line.parsed.tag_set) + Len(e.line.parsed.field_set) + 1

\* C21: on the new-table path a line whose table definition cannot be
\* constructed ends in a qualification error for that line, the ParseError of
\* a strict call or an entry of the errors of a partial call, never in a crash
\* of the validator, and installs no table in the shadow schema.
C21_ConstructionFailureIsLineError ==
    \A v \in Validators :
        \A k \in DOMAIN hist[v].trace :
            LET e == hist[v].trace[k]
            IN  CannotConstructTable(e) =>
                    /\ e.status = "Err"
                    /\ state[v] # "Panicked"
                    /\ e.schemaAfter = e.schemaBefore
                    /\ ~hist[v].accept_partial =>
                           /\ returned[v].kind = "ParseError"
                           /\ returned[v].err = e.err
                    /\ (hist[v].accept_partial /\ state[v] = "Parsed") =>
                           e.err \in Range(linesParsed[v].errors)

\* The columns named x of the tables named n
ColumnsNamed(tables, n, x) ==
    UNION {{c \in Range(t.columns) : c.name = x} : t \in {t \in tables : t.table_name = n}}

\* The catalog after the publication of validator v holds each column d that
\* v published exactly once: as the catalog held it before, if another writer
\* had installed the name by then, or else as d if the publication succeeded
OneColumnPerPublishedName(v) ==
    \A a \in DOMAIN hist[v].applied :
        \A i \in DOMAIN hist[v].applied[a].batch.ops :
            LET op == hist[v].applied[a].batch.ops[i]
            IN  \A d \in Range(op.field_definitions) :
                    LET before == ColumnsNamed(hist[v].catalogBefore.tables,
                                               op.table_name, d.name)
                        now == ColumnsNamed(catalog.tables, op.table_name, d.name)
                    IN  /\ Cardinality(now) <= 1
                        /\ before # {} => now = before
                        /\ (before = {} /\ hist[v].applied[a].result = "Ok") => now = {d}

\* Every qualified line of v on a table of its snapshot uses, for each name
\* the snapshot has, the ColumnId of the snapshot, and defines no column of
\* that name in its op
ReusesSnapshotIds(v) ==
    \A k \in Qualified(hist[v]) :
        LET e == hist[v].trace[k]
        IN  \A t \in {t \in withCatalog[v].db_schema.tables :
                         t.table_name = e.line.parsed.measurement} :
                \A c \in {c \in Range(t.columns) : c.name \in NamesUsed(e.line.parsed)} :
                    /\ e.qualified.table_id = t.table_id
                    /\ RowIdsFor(e, c.name) = {c.id}
                    /\ e.catalog_op.some => DefinedIds(Unwrap(e.catalog_op), c.name) = {}

\* C22: concurrent proposal of the same new column.  When two validators that
\* started from the same snapshot publish a column of the same name on the
\* same table, in either order, the catalog holds exactly one column of that
\* name, with the ColumnId of the first to publish; a validator initialized
\* afterwards starts from the schema of the catalog and reuses that ColumnId
\* without minting one.
C22_RaceOnOneColumn ==
    \A v \in Validators :
        /\ state[v] = "WithCatalog" =>
               withCatalog[v].db_schema.tables = hist[v].catalogBefore.tables
        /\ Ended(v) => OneColumnPerPublishedName(v)
        /\ Ended(v) => ReusesSnapshotIds(v)

\* C22 witness: the table cpu was created without val2, val2 was added to it
\* afterwards (it is the column after time), and a second writer minted one
\* more ColumnId on cpu without minting a table: it staged val2 from a
\* snapshot taken before that publication and published after it.  A validator
\* initialized after both (the id counter was past the second writer's id
\* by then) wrote val2 under the id of the catalog and minted nothing.
C22_Witness ==
    \E v \in Validators :
        \E t \in withCatalog[v].db_schema.tables :
            /\ Ended(v)
            /\ t.table_name = "cpu"
            /\ Len(t.columns) = 4
            /\ t.columns[3].name = TIME_COLUMN_NAME
            /\ t.columns[4].name = "val2"
            /\ catalog.tables = {t}
            /\ hist[v].idsAtInit.table = 1
            /\ hist[v].idsAtInit.column > t.columns[4].id + 1
            /\ hist[v].lp = <<LpCpuAdd>>
            /\ Qualified(hist[v]) = {1}
            /\ RowIdsFor(hist[v].trace[1], "val2") = {t.columns[4].id}
            /\ hist[v].trace[1].catalog_op = None
            /\ hist[v].trace[1].idsAfter = hist[v].trace[1].idsBefore
====
